---- MODULE Spec2Model ----
(***************************************************************************)
(* The PDF object encoder of package pdf: the encodeState writer (a        *)
(* bufio.Writer with a sticky error and a name table), EncodeObject, the   *)
(* encode methods of the Object variants, and the document driver Encode.  *)
(*                                                                         *)
(* Bytes and runes are natural numbers (their code points); a string is a  *)
(* sequence of them.  A Go error is one of the strings below, "nil" being   *)
(* the nil error.                                                           *)
(***************************************************************************)
EXTENDS Integers, Sequences, FiniteSets, TLC

VARIABLES
    pc,       \* position of the caller: "ready" before the call, "done" after
    obj,      \* the Object handed to EncodeObject (a PDF for Encode)
    env,      \* the world of the call: sink, readers, contexts, map order
    ret,      \* what the last call returned
    calls,    \* number of calls made on the context so far
    procs     \* the two callers sharing one value

vars == <<pc, obj, env, ret, calls, procs>>

(***************************************************************************)
(* Bounds of the model.                                                    *)
(***************************************************************************)
\* Size of a bufio.Writer's buffer.  bufio.NewWriter gives 4096 bytes; the
\* model keeps the buffer small so that a rendering fills it many times.
BufSize == 4
\* A failing sink accepts cap bytes and fails from then on, cap in 0..MaxCap.
MaxCap == 12
\* Calls made on one encodeState in the context specification.
MaxCalls == 4
\* Elements of an Array of the object universe.
MaxLen == 2
\* Runes of a Name in the name specification.
MaxName == 3
\* Declared length of a Stream, and bytes of its source, in the stream
\* specification.
MaxStream == 3
\* Indirect objects of a document's Body.
MaxBody == 2

nil == "nil"
ErrSink == "ErrSink"              \* the sink's own write error
EOF == "EOF"                      \* io.EOF
ErrShortWrite == "ErrShortWrite"  \* io.ErrShortWrite

Min(a, b) == IF a < b THEN a ELSE b

Drop(s, n) == SubSeq(s, n + 1, Len(s))
Take(s, n) == SubSeq(s, 1, n)

(***************************************************************************)
(* The world of one call.                                                  *)
(*   out, cap   the underlying io.Writer: the bytes it accepted, and its    *)
(*              capacity: <<n>> when it fails after n bytes, <<>> when it  *)
(*              never fails                                                *)
(*   st         the stack of live encodeStates, st[1] the outermost        *)
(*   rd         the io.Readers behind Stream.Data: bytes still unread      *)
(*   src        what the readers held when the call began                  *)
(*   ord        the order in which range visits the keys of a Dict         *)
(*   log        <<name, id, kind>> for every id an Indirect ("obj") or a    *)
(*              Reference ("ref") got from objName, in call order          *)
(*   first      the first error that occurred: a failed write of the sink  *)
(*              or a Stream source that ran short                          *)
(*   trace      every byte an encode method or EncodeObject itself wrote   *)
(*   left       bytes still buffered in an encodeState when it was dropped *)
(***************************************************************************)
NewState == [buf |-> <<>>, berr |-> nil, err |-> nil,
             nextName |-> 0, names |-> <<>>]

NewEnv(cap, rd, ord) ==
    [out |-> <<>>, cap |-> cap, st |-> <<>>, rd |-> rd, src |-> rd,
     ord |-> ord, log |-> <<>>, first |-> nil, trace |-> <<>>, left |-> 0]


\* What a call returns: the world after, the count it returned (0 when it
\* returns none), the error, and whether it panicked (a nil dereference)
\* instead of returning.
WR(e, n, err) == [e |-> e, n |-> n, err |-> err, panic |-> FALSE]
ER(e, err, panic) == [e |-> e, n |-> 0, err |-> err, panic |-> panic]

\* The io.Writer handed to the outermost EncodeObject.  It accepts bytes
\* until its capacity is used up; the write that does not fit is cut short
\* and fails, and so does every later write.
SinkWrite(e, p) ==
    LET room == IF e.cap = <<>> THEN Len(p) ELSE e.cap[1] - Len(e.out)
    IN  IF Len(p) <= room
        THEN WR([e EXCEPT !.out = @ \o p], Len(p), nil)
        ELSE WR([e EXCEPT !.out = @ \o Take(p, room),
                          !.first = IF @ = nil THEN ErrSink ELSE @],
                room, ErrSink)

RECURSIVE WriterWrite(_, _, _)
RECURSIVE BufWriteLoop(_, _, _, _)

\* The end of Flush: r is what b.wr.Write(b.buf[0:b.n]) returned.
Flushed(r, d) ==
    CASE r.err # nil ->
           WR([r.e EXCEPT !.st[d].buf = Drop(@, r.n),
                          !.st[d].berr = r.err], 0, r.err)
      [] r.n < Len(r.e.st[d].buf) ->
           WR([r.e EXCEPT !.st[d].buf = Drop(@, r.n),
                          !.st[d].berr = ErrShortWrite], 0, ErrShortWrite)
      [] OTHER -> WR([r.e EXCEPT !.st[d].buf = <<>>], 0, nil)

\* bufio.Writer.Flush of st[d].w
BufFlush(e, d) ==
    CASE e.st[d].berr # nil -> WR(e, 0, e.st[d].berr)
      [] Len(e.st[d].buf) = 0 -> WR(e, 0, nil)
      [] OTHER -> Flushed(WriterWrite(e, d - 1, e.st[d].buf), d)

\* The end of a turn of Write's loop that wrote p directly: r is what
\* b.wr.Write(p) returned.
BufWrote(r, d, p, nn) ==
    IF r.err # nil
    THEN WR([r.e EXCEPT !.st[d].berr = r.err], nn + r.n, r.err)
    ELSE BufWriteLoop(r.e, d, Drop(p, r.n), nn + r.n)

\* The end of a turn of Write's loop that filled the buffer with n bytes of
\* p: f is what Flush returned.
BufFilled(f, d, p, nn, n) ==
    IF f.err # nil THEN WR(f.e, nn + n, f.err)
    ELSE BufWriteLoop(f.e, d, Drop(p, n), nn + n)

\* bufio.Writer.Write and WriteString of st[d].w: nn bytes are written so far
BufWriteLoop(e, d, p, nn) ==
    CASE e.st[d].berr # nil -> WR(e, nn, e.st[d].berr)
      [] Len(p) <= BufSize - Len(e.st[d].buf) ->
           WR([e EXCEPT !.st[d].buf = @ \o p], nn + Len(p), nil)
      [] Len(e.st[d].buf) = 0 ->
           \* large write, empty buffer: write directly
           BufWrote(WriterWrite(e, d - 1, p), d, p, nn)
      [] OTHER ->
           BufFilled(BufFlush([e EXCEPT !.st[d].buf =
                                  @ \o Take(p, BufSize - Len(@))], d),
                     d, p, nn, BufSize - Len(e.st[d].buf))

BufWrite(e, d, p) == BufWriteLoop(e, d, p, 0)

\* The end of WriteByte when the buffer was full: f is what Flush returned.
ByteFlushed(f, d, c) ==
    IF f.err # nil THEN WR(f.e, 0, f.err)
    ELSE WR([f.e EXCEPT !.st[d].buf = @ \o <<c>>], 1, nil)

\* bufio.Writer.WriteByte of st[d].w
BufWriteByte(e, d, c) ==
    CASE e.st[d].berr # nil -> WR(e, 0, e.st[d].berr)
      [] BufSize - Len(e.st[d].buf) <= 0 -> ByteFlushed(BufFlush(e, d), d, c)
      [] OTHER -> WR([e EXCEPT !.st[d].buf = @ \o <<c>>], 1, nil)

\* utf8.EncodeRune, for runes below 0x10000
UTF8(r) ==
    IF r < 128 THEN <<r>>
    ELSE IF r < 2048 THEN <<192 + (r \div 64), 128 + (r % 64)>>
    ELSE <<224 + (r \div 4096), 128 + ((r \div 64) % 64), 128 + (r % 64)>>

\* The end of WriteRune when fewer than utf8.UTFMax bytes were free: f is
\* what Flush returned.
RuneFlushed(f, d, r) ==
    CASE f.err # nil -> WR(f.e, 0, f.err)
      [] BufSize - Len(f.e.st[d].buf) < 4 -> BufWrite(f.e, d, UTF8(r))
      [] OTHER -> WR([f.e EXCEPT !.st[d].buf = @ \o UTF8(r)],
                     Len(UTF8(r)), nil)

\* bufio.Writer.WriteRune of st[d].w
BufWriteRune(e, d, r) ==
    CASE r < 128 -> BufWriteByte(e, d, r)
      [] e.st[d].berr # nil -> WR(e, 0, e.st[d].berr)
      [] BufSize - Len(e.st[d].buf) < 4 -> RuneFlushed(BufFlush(e, d), d, r)
      [] OTHER -> WR([e EXCEPT !.st[d].buf = @ \o UTF8(r)],
                     Len(UTF8(r)), nil)

\* The end of a method of encodeState: s.err is the error of the write r.
Recorded(r, d) == [r EXCEPT !.e.st[d].err = r.err]

\* encodeState.Write
StateWrite(e, d, buf) ==
    IF e.st[d].err # nil THEN WR(e, 0, e.st[d].err)
    ELSE Recorded(BufWrite(e, d, buf), d)

\* The io.Writer at level d: the sink (0) or the encodeState st[d].
WriterWrite(e, d, p) ==
    IF d = 0 THEN SinkWrite(e, p) ELSE StateWrite(e, d, p)

\* encodeState.WriteString
StateWriteString(e, d, str) ==
    IF e.st[d].err # nil THEN WR(e, 0, e.st[d].err)
    ELSE Recorded(BufWrite(e, d, str), d)

\* WriteByte as it would be if, with s.err set, it returned nil instead of
\* s.err.
StateWriteByteNil(e, d, c) ==
    IF e.st[d].err # nil THEN WR(e, 0, nil)
    ELSE Recorded(BufWriteByte(e, d, c), d)

\* encodeState.WriteByte
StateWriteByte(e, d, c) ==
    IF e.st[d].err # nil THEN WR(e, 0, e.st[d].err)
    ELSE Recorded(BufWriteByte(e, d, c), d)

\* encodeState.WriteRune
StateWriteRune(e, d, r) ==
    IF e.st[d].err # nil THEN WR(e, 0, e.st[d].err)
    ELSE Recorded(BufWriteRune(e, d, r), d)

\* encodeState.Close
StateClose(e, d) ==
    IF e.st[d].err # nil THEN WR(e, 0, e.st[d].err)
    ELSE Recorded(BufFlush(e, d), d)

\* objName as it would be without s.nextName++.
StateObjNameSameId(e, d, name) ==
    IF name \in DOMAIN e.st[d].names
    THEN WR(e, e.st[d].names[name], nil)
    ELSE WR([e EXCEPT !.st[d].names = @ @@ (name :> e.st[d].nextName)],
            e.st[d].nextName, nil)

\* encodeState.objName: the world after, and the id in n
StateObjName(e, d, name) ==
    IF name \in DOMAIN e.st[d].names
    THEN WR(e, e.st[d].names[name], nil)
    ELSE WR([e EXCEPT !.st[d].nextName = @ + 1,
                      !.st[d].names = @ @@ (name :> e.st[d].nextName)],
            e.st[d].nextName, nil)

(***************************************************************************)
(* Objects.  The nil Object is NilObject.  A Name and a LiteralString carry *)
(* their runes or bytes; a Dict is a function from keys (the runes of a     *)
(* Name) to Objects; Stream.Data names one of the readers of the world.     *)
(***************************************************************************)
NilObject == [t |-> "nil"]
Boolean(b) == [t |-> "Boolean", v |-> b]
Integer(i) == [t |-> "Integer", v |-> i]
LiteralString(str) == [t |-> "LiteralString", v |-> str]
Name(n) == [t |-> "Name", v |-> n]
Array(a) == [t |-> "Array", v |-> a]
Dict(m) == [t |-> "Dict", v |-> m]
Stream(length, data) == [t |-> "Stream", Length |-> length, Data |-> data]
Indirect(name, o) == [t |-> "Indirect", Name |-> name, Object |-> o]
Reference(name) == [t |-> "Reference", v |-> name]

\* String literals of the source, as bytes.
StrNull == <<110, 117, 108, 108>>                          \* "null"
StrTrue == <<116, 114, 117, 101>>                          \* "true"
StrFalse == <<102, 97, 108, 115, 101>>                     \* "false"
StrHash23 == <<35, 50, 51>>                                \* "#23"
StrDictOpen == <<60, 60>>                                  \* "<<"
StrDictClose == <<10, 62, 62>>                             \* "\n>>"
StrStream == <<10, 115, 116, 114, 101, 97, 109, 10>>       \* "\nstream\n"
StrEndStream ==
    <<10, 101, 110, 100, 115, 116, 114, 101, 97, 109, 10>> \* "\nendstream\n"
StrObj == <<32, 48, 32, 111, 98, 106, 10>>                 \* " 0 obj\n"
StrEndObj == <<10, 101, 110, 100, 111, 98, 106, 10>>       \* "\nendobj\n"
StrRef == <<32, 48, 32, 82>>                               \* " 0 R"
KeyLength == <<76, 101, 110, 103, 116, 104>>               \* "Length"

\* A write an encode method makes on s = st[d]: the bytes are noted in the
\* trace, whatever becomes of them.
PutByte(e, d, c) == StateWriteByte([e EXCEPT !.trace = @ \o <<c>>], d, c)
PutString(e, d, str) == StateWriteString([e EXCEPT !.trace = @ \o str], d, str)
PutRune(e, d, r) == StateWriteRune([e EXCEPT !.trace = @ \o UTF8(r)], d, r)
PutBytes(e, d, p) == StateWrite([e EXCEPT !.trace = @ \o p], d, p)

\* fmt's %d of a natural number
RECURSIVE Decimal(_)
Decimal(n) ==
    IF n < 10 THEN <<48 + n>> ELSE Decimal(n \div 10) \o <<48 + (n % 10)>>

\* fmt.Fprint(s, int(i)): the digits, with a leading '-' below zero
FormatInt(i) == IF i < 0 THEN <<45>> \o Decimal(0 - i) ELSE Decimal(i)

HexDigit(h) == IF h < 10 THEN 48 + h ELSE 55 + h

\* fmt's %X of a rune: uppercase hexadecimal, no padding
RECURSIVE FormatHex(_)
FormatHex(n) ==
    IF n < 16 THEN <<HexDigit(n)>>
    ELSE FormatHex(n \div 16) \o <<HexDigit(n % 16)>>

\* Boolean.encode
EncodeBoolean(e, d, o) == PutBytes(e, d, IF o.v THEN StrTrue ELSE StrFalse)

\* Integer.encode
EncodeInteger(e, d, o) == PutBytes(e, d, FormatInt(o.v))

\* The strings.Replacer of LiteralString.encode
Replacement(b) == IF b \in {40, 41, 92} THEN <<92, b>> ELSE <<b>>

\* The index of the first byte of str after index last that is replaced, 0
\* when there is none.
NextReplaced(str, last) ==
    LET hits == {i \in (last + 1)..Len(str) : str[i] \in {40, 41, 92}}
    IN  IF hits = {} THEN 0 ELSE CHOOSE j \in hits : \A k \in hits : j <= k

\* The writes Replacer.WriteString makes for the replaced byte str[i]: the
\* run before it, when there is one, and its replacement.
ReplaceByte(w, d, b) ==
    IF w.err # nil THEN w ELSE PutBytes(w.e, d, Replacement(b))

ReplaceAt(e, d, str, last, i) ==
    IF last # i - 1
    THEN ReplaceByte(PutString(e, d, SubSeq(str, last + 1, i - 1)), d, str[i])
    ELSE PutBytes(e, d, Replacement(str[i]))

\* Replacer.WriteString(s, str): the loop from the replaced byte at index
\* last on, w being what the last write returned.  The first write that
\* fails ends it.
RECURSIVE ReplacerLoop(_, _, _, _)
ReplacerLoop(w, d, str, last) ==
    CASE w.err # nil -> w
      [] NextReplaced(str, last) = 0 ->
           IF last # Len(str) THEN PutString(w.e, d, Drop(str, last)) ELSE w
      [] OTHER ->
           ReplacerLoop(ReplaceAt(w.e, d, str, last, NextReplaced(str, last)),
                        d, str, NextReplaced(str, last))

ReplacerWriteString(e, d, str) == ReplacerLoop(WR(e, 0, nil), d, str, 0)

\* LiteralString.encode
EncodeLiteralString(e, d, o) ==
    ER(PutByte(ReplacerWriteString(PutByte(e, d, 40).e, d, o.v).e, d, 41).e,
       nil, FALSE)

\* The write Name.encode makes for the rune r
NameRune(e, d, r) ==
    CASE (r < 33) \/ (r > 126) -> PutBytes(e, d, <<35>> \o FormatHex(r))
      [] r = 35 -> PutString(e, d, StrHash23)
      [] OTHER -> PutRune(e, d, r)

\* Name.encode: the loop over the runes from index i on, w being what the
\* write for the rune before returned.
RECURSIVE NameLoop(_, _, _, _)
NameLoop(w, d, n, i) ==
    CASE w.err # nil -> ER(w.e, w.err, FALSE)
      [] i > Len(n) -> ER(w.e, nil, FALSE)
      [] OTHER -> NameLoop(NameRune(w.e, d, n[i]), d, n, i + 1)

EncodeName(e, d, o) == NameLoop(ER(PutByte(e, d, 47).e, nil, FALSE), d, o.v, 1)

\* The id objName gave, noted in the log
Noted(n, name, kind) ==
    [n EXCEPT !.e.log = Append(@, <<name, n.n, kind>>)]

\* n := s.objName(name)
ObjName(e, d, name, kind) == Noted(StateObjName(e, d, name), name, kind)

\* err := Integer(n).encode(s), n being what objName returned
EncodeId(n, d) == EncodeInteger(n.e, d, Integer(n.n))

\* Reference.encode, from the test of the id's error on
ReferenceEnd(r, d) ==
    IF r.err # nil THEN r ELSE ER(PutString(r.e, d, StrRef).e, nil, FALSE)

\* Reference.encode
EncodeReference(e, d, o) == ReferenceEnd(EncodeId(ObjName(e, d, o.v, "ref"), d), d)

RECURSIVE EncodeObject(_, _, _)
RECURSIVE Encode(_, _, _)

\* The loop body of Array.encode: w is what the write of the spacing returned.
ArrayElem(w, d, o) == IF w.err # nil THEN w ELSE EncodeObject(w.e, d, o)

\* Array.encode: the loop over the elements from index i on, r being what
\* the turn before returned.
RECURSIVE ArrayLoop(_, _, _, _)
ArrayLoop(r, d, a, i) ==
    CASE r.panic \/ r.err # nil -> r
      [] i > Len(a) -> ER(PutByte(r.e, d, 93).e, nil, FALSE)
      [] OTHER ->
           ArrayLoop(ArrayElem(PutString(r.e, d, IF i = 1 THEN <<>> ELSE <<32>>),
                               d, a[i]),
                     d, a, i + 1)

EncodeArray(e, d, o) == ArrayLoop(ER(PutByte(e, d, 91).e, nil, FALSE), d, o.v, 1)

\* The order in which range visits the keys of map m: the order of the world.
RangeKeys(e, m) ==
    IF Cardinality(DOMAIN m) = 1 THEN <<CHOOSE k \in DOMAIN m : TRUE>>
    ELSE SelectSeq(e.ord, LAMBDA k : k \in DOMAIN m)

\* The loop body of Dict.encode from the test of the key's error on: rk is
\* what EncodeObject(s, k) returned.
DictValue(rk, d, v) ==
    IF rk.panic \/ rk.err # nil THEN rk
    ELSE EncodeObject(PutByte(rk.e, d, 32).e, d, v)

\* Dict.encode: the loop over the keys ks from index i on, r being what the
\* turn before returned.
RECURSIVE DictLoop(_, _, _, _, _)
DictLoop(r, d, m, ks, i) ==
    CASE r.panic \/ r.err # nil -> r
      [] i > Len(ks) -> ER(PutString(r.e, d, StrDictClose).e, nil, FALSE)
      [] OTHER ->
           DictLoop(DictValue(EncodeObject(PutByte(r.e, d, 10).e, d, Name(ks[i])),
                              d, m[ks[i]]),
                    d, m, ks, i + 1)

EncodeDict(e, d, o) ==
    DictLoop(ER(PutString(e, d, StrDictOpen).e, nil, FALSE), d, o.v,
             RangeKeys(e, o.v), 1)

RECURSIVE Copy(_, _, _, _, _)

\* The end of a turn of io.Copy's loop: w is what the Write of the nr bytes
\* read returned.
Copied(w, d, data, limit, written, nr) ==
    CASE w.err # nil -> WR(w.e, written + w.n, w.err)
      [] w.n # nr -> WR(w.e, written + w.n, ErrShortWrite)
      [] OTHER -> Copy(w.e, d, data, limit, written + w.n)

\* io.Copy(s, io.LimitReader(data, limit)), written bytes copied so far.  A
\* Read of the reader gives all the bytes it has, up to the limit.
Copy(e, d, data, limit, written) ==
    LET nr == Min(limit, Len(e.rd[data]))
    IN  IF limit <= 0 \/ nr = 0
        THEN WR(e, written, nil)         \* Read gives io.EOF
        ELSE Copied(PutBytes([e EXCEPT !.rd[data] = Drop(@, nr)], d,
                             Take(e.rd[data], nr)),
                    d, data, limit - nr, written, nr)

\* The end of the copy as it would be with io.Copy in the place of io.CopyN:
\* a source that ends early is no error.
CopyResult(c, n) == ER(c.e, c.err, FALSE)

\* The end of io.CopyN: c is what io.Copy returned.
CopyNResult(c, n) ==
    CASE c.n = n -> ER(c.e, nil, FALSE)
      [] c.n < n /\ c.err = nil ->
           ER([c.e EXCEPT !.first = IF @ = nil THEN EOF ELSE @], EOF, FALSE)
      [] OTHER -> ER(c.e, c.err, FALSE)

\* io.CopyN(s, data, n)
CopyN(e, d, data, n) == CopyNResult(Copy(e, d, data, n, 0), n)

\* Stream.encode, from the test of io.CopyN's error on
StreamEnd(r, d) ==
    IF r.err # nil THEN r ELSE ER(PutString(r.e, d, StrEndStream).e, nil, FALSE)

\* Stream.encode, from the test of the dictionary's error on
StreamData(r, d, o) ==
    IF r.panic \/ r.err # nil THEN r
    ELSE StreamEnd(CopyN(PutString(r.e, d, StrStream).e, d, o.Data, o.Length), d)

\* Stream.encode
EncodeStream(e, d, o) ==
    StreamData(EncodeObject(e, d, Dict(KeyLength :> Integer(o.Length))), d, o)

\* Indirect.encode, from the test of the object's error on
IndirectEnd(r, d) ==
    IF r.panic \/ r.err # nil THEN r
    ELSE ER(PutString(r.e, d, StrEndObj).e, nil, FALSE)

\* Indirect.encode, from the test of the id's error on
IndirectObject(r, d, o) ==
    IF r.err # nil THEN r
    ELSE IndirectEnd(Encode(PutString(r.e, d, StrObj).e, d, o.Object), d)

\* Indirect.encode
EncodeIndirect(e, d, o) ==
    IndirectObject(EncodeId(ObjName(e, d, o.Name, "obj"), d), d, o)

\* obj.encode(s), s being st[d]: the method of the Object's type.  The nil
\* Object has no method to call: the call panics.
Encode(e, d, o) ==
    CASE o.t = "nil" -> ER(e, nil, TRUE)
      [] o.t = "Boolean" -> EncodeBoolean(e, d, o)
      [] o.t = "Integer" -> EncodeInteger(e, d, o)
      [] o.t = "LiteralString" -> EncodeLiteralString(e, d, o)
      [] o.t = "Name" -> EncodeName(e, d, o)
      [] o.t = "Array" -> EncodeArray(e, d, o)
      [] o.t = "Dict" -> EncodeDict(e, d, o)
      [] o.t = "Stream" -> EncodeStream(e, d, o)
      [] o.t = "Indirect" -> EncodeIndirect(e, d, o)
      [] o.t = "Reference" -> EncodeReference(e, d, o)

\* The write of "null" as it would be if it went to the outermost writer and
\* not to w.
WriteNullOutermost(e, d) ==
    WriterWrite([e EXCEPT !.trace = @ \o StrNull], 0, StrNull)

\* The writes of io.WriteString(w, "null"), w being the writer at level d
WriteNull(e, d) == WriterWrite([e EXCEPT !.trace = @ \o StrNull], d, StrNull)

\* The deferred function of EncodeObject: c is what ew.Close() returned, ew
\* being st[d], and err the error on its way out.  The Close's error takes
\* the place of no error, and ew is dropped.
Dropped(c, d, err, panic) ==
    [c EXCEPT !.e.st = Take(@, d - 1),
              !.e.left = @ + Len(c.e.st[d].buf),
              !.n = 0,
              !.err = IF err = nil /\ ~panic THEN c.err ELSE err,
              !.panic = panic]

\* The end of EncodeObject: r is what obj.encode(&ew) returned (or that it
\* panicked), ew being st[d].
Deferred(r, d) ==
    CASE r.panic -> Dropped(StateClose(r.e, d), d, nil, TRUE)
      [] r.err # nil -> Dropped(StateClose(r.e, d), d, r.err, FALSE)
      [] OTHER -> Dropped(StateClose(r.e, d), d, r.e.st[d].err, FALSE)

\* EncodeObject(w, obj), w being the writer at level d: the new encodeState
\* is st[d+1].
EncodeObject(e, d, o) ==
    IF o = NilObject
    THEN WriteNull(e, d)
    ELSE Deferred(Encode([e EXCEPT !.st = Append(Take(@, d), NewState)],
                         d + 1, o), d + 1)

\* Version
StrHeader == <<37, 80, 68, 70, 45, 49, 46, 55, 10>>       \* "%PDF-1.7\n"
StrEOF == <<37, 37, 69, 79, 70>>                          \* "%%EOF"

PDF(body) == [t |-> "PDF", Body |-> body]

\* A write Encode makes on w itself
PutSink(e, p) == SinkWrite([e EXCEPT !.trace = @ \o p], p)

\* Encode: the loop over p.Body from index i on, r being what the step
\* before returned.
RECURSIVE BodyLoop(_, _, _)
BodyLoop(r, body, i) ==
    CASE r.panic \/ r.err # nil -> r
      [] i > Len(body) -> PutSink(r.e, StrEOF)
      [] OTHER -> BodyLoop(EncodeObject(r.e, 0, body[i]), body, i + 1)

\* Encode(w, p).  The source writes the header to bw, a name it does not
\* declare; bw is read as w.
EncodePDF(e, p) == BodyLoop(PutSink(e, StrHeader), p.Body, 1)

(***************************************************************************)
(* The objects, sinks and readers the calls are made with.                 *)
(***************************************************************************)
ObjNames == {"a", "b"}
Key1 == <<65>>                 \* "A"
Key2 == <<66>>                 \* "B"
Orders == {<<Key1, Key2>>, <<Key2, Key1>>}
Caps == {<<>>} \cup {<<n>> : n \in 0..MaxCap}

\* Reader r holds one byte, reader z none.
Readers == [r |-> <<88>>, z |-> <<>>]

Leaves ==
    {NilObject, Boolean(TRUE), LiteralString(<<40, 65>>), Name(<<65, 35>>),
     Reference("a"), Reference("b"),
     Stream(1, "r"), Stream(2, "r"), Stream(1, "z")}

SeqsUpTo(S, n) == UNION {[1..k -> S] : k \in 0..n}

Compose(S) ==
    {Array(a) : a \in SeqsUpTo(S, MaxLen)}
    \cup {Dict(m) : m \in UNION {[K -> S] : K \in SUBSET {Key1, Key2}}}
    \cup {Indirect(n, o) : n \in ObjNames, o \in S}

Wrap(S) ==
    {Indirect(n, o) : n \in ObjNames, o \in S}
    \cup {Array(<<o>>) : o \in S}
    \cup {Dict(Key1 :> o) : o \in S}

Objects == Leaves \cup Compose(Leaves) \cup Wrap(Compose(Leaves))

NoReturn == [err |-> nil, panic |-> FALSE]

(***************************************************************************)
(* Spec: one call of EncodeObject on an object of the universe, over a     *)
(* sink that fails at any point or never.                                   *)
(***************************************************************************)
Init ==
    /\ pc = "ready"
    /\ obj \in Objects
    /\ env \in {NewEnv(c, Readers, o) : c \in Caps, o \in Orders}
    /\ ret = NoReturn
    /\ calls = 0
    /\ procs = <<>>

CallEncodeObject ==
    /\ pc = "ready"
    /\ \E r \in {EncodeObject(env, 0, obj)} :
          /\ env' = r.e
          /\ ret' = [err |-> r.err, panic |-> r.panic]
    /\ pc' = "done"
    /\ UNCHANGED <<obj, calls, procs>>

Next == CallEncodeObject

Spec == Init /\ [][Next]_vars

(***************************************************************************)
(* Claims about one EncodeObject call (Spec).                              *)
(***************************************************************************)
Returned == pc = "done"

\* The number of distinct names that come before the first entry of the log
\* that carries name nm.
OrdinalOf(log, nm) ==
    LET firstAt == CHOOSE i \in 1..Len(log) :
                       /\ log[i][1] = nm
                       /\ \A j \in 1..(i - 1) : log[j][1] # nm
    IN  Cardinality({log[j][1] : j \in 1..(firstAt - 1)})

\* C1: within one EncodeObject call every name of an Indirect or a
\* Reference gets one id, the k-th distinct name in render order getting
\* id k-1, wherever in the value tree its occurrences are.
C1_OneIdPerName ==
    Returned =>
        \A i \in 1..Len(env.log) :
            env.log[i][2] = OrdinalOf(env.log, env.log[i][1])

\* C3: EncodeObject never crashes, it returns the first error that occurred
\* (nil when none did), and it returns nil only when the sink accepted every
\* rendered byte.
C3_FirstErrorReturned ==
    Returned =>
        /\ ~ret.panic
        /\ ret.err = env.first
        /\ ret.err = nil => env.out = env.trace

StrNullObj == <<48>> \o StrObj \o StrNull \o StrEndObj  \* "0 0 obj\nnull\nendobj\n"
StrNullArray == <<91>> \o StrNull \o <<93>>              \* "[null]"
StrNullDict ==
    StrDictOpen \o <<10, 47>> \o Key1 \o <<32>> \o StrNull \o StrDictClose

\* C6: a nil Object renders as null at the top level, as an Array element,
\* as a Dict value and inside an Indirect, and no encoding crashes.
C6_NilRendersNull ==
    Returned =>
        /\ ~ret.panic
        /\ env.cap = <<>> =>
              /\ obj = NilObject => env.out = StrNull
              /\ obj = Array(<<NilObject>>) => env.out = StrNullArray
              /\ obj = Dict(Key1 :> NilObject) => env.out = StrNullDict
              /\ obj \in {Indirect(n, NilObject) : n \in ObjNames}
                    => env.out = StrNullObj

\* C10: when EncodeObject returns nil, the sink holds exactly the bytes the
\* encode methods wrote, in the order they wrote them, and no encodeState
\* was dropped with bytes still in its buffer.
C10_OutputInRenderOrder ==
    (Returned /\ ~ret.panic /\ ret.err = nil) =>
        /\ env.out = env.trace
        /\ env.left = 0
        /\ env.st = <<>>

\* [[null /A#23]] reached the sink through two nested encodeStates.
C10_Witness ==
    /\ Returned /\ ret.err = nil
    /\ obj = Array(<<Array(<<NilObject, Name(<<65, 35>>)>>)>>)
    /\ env.out = <<91, 91>> \o StrNull \o <<32, 47, 65>> \o StrHash23 \o <<93, 93>>

(***************************************************************************)
(* SpecName: EncodeObject on a Name.  The runes are a tab, a space, '!',   *)
(* '#', 'A', '~', DEL and e-acute.                                          *)
(***************************************************************************)
NameRunes == {9, 32, 33, 35, 65, 126, 127, 233}

InitName ==
    /\ pc = "ready"
    /\ obj \in {Name(n) : n \in SeqsUpTo(NameRunes, MaxName)}
    /\ env = NewEnv(<<>>, Readers, <<Key1, Key2>>)
    /\ ret = NoReturn
    /\ calls = 0
    /\ procs = <<>>

SpecName == InitName /\ [][Next]_vars

\* '#' and two uppercase hexadecimal digits
Escape(r) == <<35, HexDigit((r \div 16) % 16), HexDigit(r % 16)>>

RECURSIVE EscapedName(_)
EscapedName(n) ==
    IF n = <<>> THEN <<>>
    ELSE (IF Head(n) >= 33 /\ Head(n) <= 126 /\ Head(n) # 35
          THEN <<Head(n)>> ELSE Escape(Head(n)))
         \o EscapedName(Tail(n))

\* C5: a Name renders as '/' and, for each character, the character itself
\* when it is in '!'..'~' and not '#', else '#' and exactly two uppercase
\* hexadecimal digits of its code point.
C5_NameEscapes ==
    (Returned /\ obj.t = "Name") =>
        /\ ret.err = nil
        /\ env.out = <<47>> \o EscapedName(obj.v)

(***************************************************************************)
(* SpecStream: EncodeObject on a Stream whose source holds any bytes, as   *)
(* many as declared, more or fewer.                                        *)
(***************************************************************************)
InitStream ==
    /\ pc = "ready"
    /\ obj \in {Stream(n, "r") : n \in 0..MaxStream}
    /\ env \in {NewEnv(c, [r |-> data, z |-> <<>>], <<Key1, Key2>>) :
                   c \in Caps, data \in SeqsUpTo({10, 88}, MaxStream)}
    /\ ret = NoReturn
    /\ calls = 0
    /\ procs = <<>>

SpecStream == InitStream /\ [][Next]_vars

\* "<<\n/Length n\n>>"
StrLengthDict(n) ==
    StrDictOpen \o <<10, 47>> \o KeyLength \o <<32>> \o Decimal(n)
    \o StrDictClose

Contains(s, sub) ==
    \E i \in 0..(Len(s) - Len(sub)) : SubSeq(s, i + 1, i + Len(sub)) = sub

\* C4: over a sink that does not fail, a Stream of declared length N whose
\* source holds at least N bytes encodes without error as its dictionary,
\* "\nstream\n", the first N bytes of the source and "\nendstream\n"; when
\* the source holds fewer, the call fails with io.EOF, which is not the
\* sink's error, and whatever the sink does no "endstream" is written.
C4_StreamCopiesDeclaredLength ==
    (Returned /\ obj.t = "Stream") =>
        LET n == obj.Length
            data == env.src[obj.Data]
        IN  /\ (env.cap = <<>> /\ Len(data) >= n) =>
                  /\ ret.err = nil
                  /\ env.out = StrLengthDict(n) \o StrStream \o Take(data, n)
                                 \o StrEndStream
            /\ (env.cap = <<>> /\ Len(data) < n) =>
                  /\ ret.err = EOF
                  /\ ret.err # ErrSink
            /\ Len(data) < n =>
                  /\ ret.err # nil
                  /\ ~Contains(env.out, StrEndStream)
                  /\ ~Contains(env.trace, StrEndStream)

\* A source longer than the declared length: only the first bytes are copied.
C4_Witness ==
    /\ Returned /\ obj.t = "Stream" /\ ret.err = nil
    /\ obj.Length = 2 /\ env.src[obj.Data] = <<88, 10, 88>>
    /\ env.rd[obj.Data] = <<88>>

(***************************************************************************)
(* SpecCtx: the methods of one encodeState, made by EncodeObject over a    *)
(* sink that fails at any point or never, called in any order.  ret holds  *)
(* the method called, its argument and results, and the encodeState and    *)
(* the sink's bytes as they were before the call.                          *)
(***************************************************************************)
CtxBufs == {<<>>, <<65>>, <<65, 66, 67, 68, 69, 70>>}
CtxStrings == {<<71, 72>>, <<71, 72, 73>>}
CtxBytes == {74}
CtxRunes == {75, 233}
CtxNames == {"a", "b", "c"}

Called(op, arg, r) ==
    [op |-> op, arg |-> arg, n |-> r.n, err |-> r.err,
     before |-> env.st[1], sunk |-> env.out]

InitCtx ==
    /\ pc = "open"
    /\ obj = NilObject
    /\ env \in {[NewEnv(c, Readers, <<Key1, Key2>>) EXCEPT !.st = <<NewState>>] :
                   c \in Caps}
    /\ ret = [op |-> "none", arg |-> <<>>, n |-> 0, err |-> nil,
              before |-> NewState, sunk |-> <<>>]
    /\ calls = 0
    /\ procs = <<>>

CtxWrite ==
    /\ calls < MaxCalls
    /\ \E buf \in CtxBufs :
          \E r \in {StateWrite(env, 1, buf)} :
             env' = r.e /\ ret' = Called("Write", buf, r)
    /\ calls' = calls + 1
    /\ UNCHANGED <<pc, obj, procs>>

CtxWriteByte ==
    /\ calls < MaxCalls
    /\ \E c \in CtxBytes :
          \E r \in {StateWriteByte(env, 1, c)} :
             env' = r.e /\ ret' = Called("WriteByte", c, r)
    /\ calls' = calls + 1
    /\ UNCHANGED <<pc, obj, procs>>

CtxWriteRune ==
    /\ calls < MaxCalls
    /\ \E c \in CtxRunes :
          \E r \in {StateWriteRune(env, 1, c)} :
             env' = r.e /\ ret' = Called("WriteRune", c, r)
    /\ calls' = calls + 1
    /\ UNCHANGED <<pc, obj, procs>>

CtxWriteString ==
    /\ calls < MaxCalls
    /\ \E str \in CtxStrings :
          \E r \in {StateWriteString(env, 1, str)} :
             env' = r.e /\ ret' = Called("WriteString", str, r)
    /\ calls' = calls + 1
    /\ UNCHANGED <<pc, obj, procs>>

CtxClose ==
    /\ calls < MaxCalls
    /\ \E r \in {StateClose(env, 1)} :
          env' = r.e /\ ret' = Called("Close", <<>>, r)
    /\ calls' = calls + 1
    /\ UNCHANGED <<pc, obj, procs>>

CtxObjName ==
    /\ calls < MaxCalls
    /\ \E name \in CtxNames :
          \E r \in {StateObjName(env, 1, name)} :
             env' = r.e /\ ret' = Called("objName", name, r)
    /\ calls' = calls + 1
    /\ UNCHANGED <<pc, obj, procs>>

NextCtx ==
    \/ CtxWrite
    \/ CtxWriteByte
    \/ CtxWriteRune
    \/ CtxWriteString
    \/ CtxClose
    \/ CtxObjName

SpecCtx == InitCtx /\ [][NextCtx]_vars

WriteMethods == {"Write", "WriteByte", "WriteRune", "WriteString"}

\* C2: once a write on an encodeState has failed, every later Write,
\* WriteByte, WriteRune and WriteString forwards nothing to the sink and
\* returns the recorded error, which is the first failure's and is never
\* replaced or reset; Close returns it and flushes nothing.
C2_StickyError ==
    /\ env.st[1].err # nil => env.st[1].err = env.first
    /\ ret.before.err # nil =>
          /\ env.st[1].err = ret.before.err
          /\ env.st[1].buf = ret.before.buf
          /\ env.out = ret.sunk
          /\ ret.op \in WriteMethods =>
                /\ ret.err = ret.before.err
                /\ ret.n = 0
          /\ ret.op = "Close" => ret.err = ret.before.err

\* Close is called after a failed write left bytes in the buffer.
C2_Witness ==
    /\ ret.op = "Close"
    /\ ret.before.err = ErrSink
    /\ Len(ret.before.buf) > 0

\* C9: objName gives a new name the counter's value, inserts it and
\* increments the counter; it gives a known name its stored id and changes
\* nothing; so the table is injective, its ids are 0..k-1 for the k names
\* seen, and the counter is k.
C9_NameTable ==
    LET s == env.st[1]
        b == ret.before
        k == Cardinality(DOMAIN s.names)
    IN  /\ \A x, y \in DOMAIN s.names : x # y => s.names[x] # s.names[y]
        /\ {s.names[x] : x \in DOMAIN s.names} = 0..(k - 1)
        /\ s.nextName = k
        /\ ret.op = "objName" =>
              IF ret.arg \in DOMAIN b.names
              THEN /\ ret.n = b.names[ret.arg]
                   /\ s.names = b.names
                   /\ s.nextName = b.nextName
              ELSE /\ ret.n = b.nextName
                   /\ ret.arg \in DOMAIN s.names
                   /\ s.names[ret.arg] = b.nextName
                   /\ \A x \in DOMAIN b.names : s.names[x] = b.names[x]
                   /\ s.nextName = b.nextName + 1

\* A name is asked for again after three names were seen.
C9_Witness ==
    /\ ret.op = "objName"
    /\ ret.arg \in DOMAIN ret.before.names
    /\ Cardinality(DOMAIN env.st[1].names) = 3
    /\ ret.n = 0

(***************************************************************************)
(* SpecDoc: one call of Encode on a document.                              *)
(***************************************************************************)
DocValues ==
    {Boolean(TRUE), Reference("a"), Reference("b"),
     Array(<<Reference("a"), Reference("b")>>)}

Documents ==
    {PDF(body) :
        body \in SeqsUpTo({Indirect(n, o) : n \in ObjNames, o \in DocValues},
                          MaxBody)}

InitDoc ==
    /\ pc = "ready"
    /\ obj \in Documents
    /\ env \in {NewEnv(c, Readers, <<Key1, Key2>>) : c \in Caps}
    /\ ret = NoReturn
    /\ calls = 0
    /\ procs = <<>>

CallEncode ==
    /\ pc = "ready"
    /\ \E r \in {EncodePDF(env, obj)} :
          /\ env' = r.e
          /\ ret' = [err |-> r.err, panic |-> r.panic]
    /\ pc' = "done"
    /\ UNCHANGED <<obj, calls, procs>>

NextDoc == CallEncode

SpecDoc == InitDoc /\ [][NextDoc]_vars

\* C8: in a document written by Encode, a Reference to a name carries the
\* id of the Body Indirect of that name, and Body Indirects of different
\* names carry different ids.
C8_DocumentIds ==
    Returned =>
        \A i, j \in 1..Len(env.log) :
            LET x == env.log[i]
                y == env.log[j]
            IN  /\ (x[3] = "ref" /\ y[3] = "obj" /\ x[1] = y[1]) => x[2] = y[2]
                /\ (x[3] = "obj" /\ y[3] = "obj" /\ x[1] # y[1]) => x[2] # y[2]

(***************************************************************************)
(* SpecShare: two callers encode the same Stream, each into a sink of its  *)
(* own that never fails.  env.rd is the one reader both read; procs[p].e   *)
(* is the rest of caller p's world.  A caller's EncodeObject runs in three *)
(* steps, so that the Reads of the two interleave: up to the copy, one     *)
(* Read and Write of the copy at a time, and from the end of the copy on.  *)
(* A Read may give fewer bytes than asked for; two Reads racing on the     *)
(* reader may both get the same bytes.                                     *)
(***************************************************************************)
Callers == {1, 2}

InitShare ==
    /\ pc = "share"
    /\ obj \in {Stream(n, "r") : n \in 0..MaxStream}
    /\ env \in {NewEnv(<<>>, [r |-> data, z |-> <<>>], <<Key1, Key2>>) :
                   data \in SeqsUpTo({88, 89}, MaxStream)}
    /\ ret = NoReturn
    /\ calls = 0
    /\ procs = [p \in Callers |->
                   [pc |-> "ready", e |-> NewEnv(<<>>, <<>>, <<Key1, Key2>>),
                    limit |-> 0, written |-> 0, err |-> nil]]

\* EncodeObject up to obj.encode, and Stream.encode up to io.CopyN
Begin(p) ==
    /\ procs[p].pc = "ready"
    /\ LET e1 == [procs[p].e EXCEPT !.st = <<NewState>>]
           r1 == EncodeObject(e1, 1, Dict(KeyLength :> Integer(obj.Length)))
           e2 == PutString(r1.e, 1, StrStream).e
       IN  procs' = [procs EXCEPT ![p] =
                IF r1.err # nil
                THEN [@ EXCEPT !.pc = "close", !.e = r1.e, !.err = r1.err]
                ELSE [@ EXCEPT !.pc = "copy", !.e = e2,
                               !.limit = obj.Length, !.written = 0]]
    /\ UNCHANGED <<pc, obj, env, ret, calls>>

\* One turn of io.Copy's loop: a Read of the shared reader and the Write of
\* what it gave.
CopyStep(p) ==
    /\ procs[p].pc = "copy"
    /\ LET me == procs[p]
           data == env.rd[obj.Data]
       IN  IF me.limit <= 0 \/ data = <<>>
           THEN \* Read gives io.EOF
                /\ procs' = [procs EXCEPT ![p].pc = "copied"]
                /\ env' = env
           ELSE \E nr \in 1..Min(me.limit, Len(data)) :
                \E raced \in {FALSE} \cup
                       {\E q \in Callers : q # p /\ procs[q].pc = "copy"} :
                   LET w == PutBytes(me.e, 1, Take(data, nr))
                   IN  /\ env' = [env EXCEPT !.rd[obj.Data] =
                                     IF raced THEN @ ELSE Drop(@, nr)]
                       /\ procs' = [procs EXCEPT ![p] =
                            [@ EXCEPT !.e = w.e,
                                      !.written = @ + w.n,
                                      !.limit = @ - nr,
                                      !.err = IF w.err # nil THEN w.err
                                              ELSE IF w.n # nr
                                              THEN ErrShortWrite ELSE nil,
                                      !.pc = IF w.err # nil \/ w.n # nr
                                             THEN "copied" ELSE "copy"]]
    /\ UNCHANGED <<pc, obj, ret, calls>>

\* The end of io.CopyN and of Stream.encode, then the end of EncodeObject:
\* the deferred Close and the error returned.
Finish(p) ==
    /\ procs[p].pc \in {"copied", "close"}
    /\ LET me == procs[p]
           cerr == IF me.pc = "close" THEN me.err
                   ELSE IF me.written = obj.Length THEN nil
                   ELSE IF me.written < obj.Length /\ me.err = nil THEN EOF
                   ELSE me.err
           e1 == IF cerr # nil THEN me.e
                 ELSE PutString(me.e, 1, StrEndStream).e
           err == IF cerr # nil THEN cerr ELSE e1.st[1].err
           c == StateClose(e1, 1)
           e2 == [c.e EXCEPT !.st = <<>>, !.left = @ + Len(c.e.st[1].buf)]
       IN  procs' = [procs EXCEPT ![p] =
                [@ EXCEPT !.pc = "done", !.e = e2,
                          !.err = IF err = nil THEN c.err ELSE err]]
    /\ UNCHANGED <<pc, obj, env, ret, calls>>

NextShare == \E p \in Callers : Begin(p) \/ CopyStep(p) \/ Finish(p)

SpecShare == InitShare /\ [][NextShare]_vars

\* EncodeObject on the value alone, its source untouched.
Alone == EncodeObject(NewEnv(<<>>, env.src, <<Key1, Key2>>), 0, obj)

\* C7: each of two EncodeObject calls on the same value, one after the
\* other or interleaved, returns what a single call on the value alone
\* returns and writes the same bytes.
C7_ValuesReadOnly ==
    \A p \in Callers :
        procs[p].pc = "done" =>
            /\ procs[p].err = Alone.err
            /\ procs[p].e.out = Alone.e.out

====
